---- MODULE Spec2Model ----
(***************************************************************************)
(* Model of create_edid.py: the EDID generator for the 5120x1440 panel.    *)
(*                                                                         *)
(*   Spec      create_ultrawide_edid run step by step on an input refresh  *)
(*             rate, the returned block handed to a caller that may alter  *)
(*             it, and validate_edid run on the resulting buffer.          *)
(*   SpecMain  the loop of main() over the four refresh rates, with the    *)
(*             file system free to fail any open()/write().                *)
(***************************************************************************)
EXTENDS Integers, Naturals, Sequences, FiniteSets, TLC

\* ------------------------------------------------------------------ bounds
\* refresh rates offered to create_ultrawide_edid are 0..MaxRate
MaxRate == 250
\* a caller that lengthens a block appends one byte drawn from 0..MaxAppendByte
MaxAppendByte == 1

\* ------------------------------------------------------- integer operators
RECURSIVE BitAnd(_, _)
\* Python's a & b on non-negative integers
BitAnd(a, b) ==
    IF a = 0 \/ b = 0 THEN 0
    ELSE ((a % 2) * (b % 2)) + 2 * BitAnd(a \div 2, b \div 2)

RECURSIVE BitOr(_, _)
\* Python's a | b on non-negative integers
BitOr(a, b) ==
    IF a = 0 THEN b
    ELSE IF b = 0 THEN a
    ELSE (IF (a % 2) + (b % 2) > 0 THEN 1 ELSE 0) + 2 * BitOr(a \div 2, b \div 2)

RECURSIVE BitXor(_, _)
\* a ^ b on non-negative integers (used to flip one bit of a byte)
BitXor(a, b) ==
    IF a = 0 THEN b
    ELSE IF b = 0 THEN a
    ELSE ((a + b) % 2) + 2 * BitXor(a \div 2, b \div 2)

RECURSIVE Pow2(_)
Pow2(n) == IF n = 0 THEN 1 ELSE 2 * Pow2(n - 1)

\* Python's a >> n and a << n on non-negative integers
ShiftR(a, n) == a \div Pow2(n)
ShiftL(a, n) == a * Pow2(n)

RECURSIVE SumRange(_, _, _)
\* s[lo] + ... + s[hi], split in halves to keep the evaluation shallow
SumRange(s, lo, hi) ==
    IF lo > hi THEN 0
    ELSE IF lo = hi THEN s[lo]
    ELSE SumRange(s, lo, (lo + hi) \div 2) + SumRange(s, ((lo + hi) \div 2) + 1, hi)

\* Python's sum(data)
SumSeq(s) == SumRange(s, 1, Len(s))

\* [x] * n
Repeat(s, n) == [i \in 1..(n * Len(s)) |-> s[((i - 1) % Len(s)) + 1]]

\* ------------------------------------------------------ calculate_checksum
calculate_checksum_NoComplement(data) == SumSeq(data) % 256

calculate_checksum(data) == (256 - (SumSeq(data) % 256)) % 256

\* --------------------------------------- create_ultrawide_edid: its tables
SupportedRates_With90 == <<60, 90, 120, 144, 240>>

\* the list refresh_rate is tested against
SupportedRates == <<60, 120, 144, 240>>

Range(s) == {s[i] : i \in 1..Len(s)}

header == <<0, 255, 255, 255, 255, 255, 255, 0>>
manufacturer_id == <<54, 201>>
product_id == <<145, 4>>
serial_number == <<1, 0, 0, 0>>
week_year == <<1, 32>>
edid_version == <<1, 4>>
display_params == <<128, 115, 46, 120, 42>>
color_chars == <<238, 145, 163, 84, 76, 153, 38, 15, 80, 84>>
established_timings == <<0, 0, 0>>
standard_timings == Repeat(<<1, 1>>, 8)
display_name ==
    <<0, 0, 0, 252, 0, 77, 80, 71, 52, 57, 49, 67, 81, 80, 88, 10, 32, 32>>
range_limits ==
    <<0, 0, 0, 253, 0, 48, 240, 30, 135, 60, 0, 10, 32, 32, 32, 32, 32, 32>>
dummy_descriptor == Repeat(<<0>>, 18)
extension_flag == <<0>>

\* ------------------------------- create_ultrawide_edid: the detailed timing
horizontal_active == 5120
horizontal_blanking == 160
vertical_active == 1440
vertical_blanking == 45
horizontal_sync_offset == 48
horizontal_sync_pulse == 32
vertical_sync_offset == 3
vertical_sync_pulse == 5
horizontal_size_low == 151
vertical_size_low == 33
size_high == 0

total_horizontal_NoBlanking == 5120 + 0

total_horizontal == 5120 + 160

total_vertical == 1440 + 45

\* int(((total_horizontal * total_vertical * refresh_rate) / 1000000) * 100)
\* int() drops the fraction. The two float operations are exact enough for
\* every supported rate that the result is the integer quotient by 10000
\* (47044, 94089, 112907, 188179 for 60, 120, 144, 240).
pixel_clock_10khz_Rounded(rate) ==
    ((total_horizontal * total_vertical * rate) + 5000) \div 10000

pixel_clock_10khz_of(rate) ==
    (total_horizontal * total_vertical * rate) \div 10000

pixel_clock_of(p10) == <<BitAnd(p10, 255), BitAnd(ShiftR(p10, 8), 255)>>

horizontal_active_low == BitAnd(horizontal_active, 255)
horizontal_blanking_low == BitAnd(horizontal_blanking, 255)
horizontal_high ==
    BitOr(BitAnd(ShiftR(horizontal_active, 8), 15),
          BitAnd(ShiftR(horizontal_blanking, 4), 240))

vertical_active_low == BitAnd(vertical_active, 255)
vertical_blanking_low == BitAnd(vertical_blanking, 255)
vertical_high ==
    BitOr(BitAnd(ShiftR(vertical_active, 8), 15),
          BitAnd(ShiftR(vertical_blanking, 4), 240))

h_sync_offset_low == BitAnd(horizontal_sync_offset, 255)
h_sync_pulse_low == BitAnd(horizontal_sync_pulse, 255)
v_sync_combined ==
    BitOr(ShiftL(BitAnd(vertical_sync_offset, 15), 4),
          BitAnd(vertical_sync_pulse, 15))
sync_high ==
    BitOr(BitOr(BitAnd(ShiftR(horizontal_sync_offset, 8), 192),
                BitAnd(ShiftR(horizontal_sync_pulse, 8), 48)),
          BitOr(BitAnd(ShiftR(vertical_sync_offset, 4), 12),
                BitAnd(ShiftR(vertical_sync_pulse, 4), 3)))

detailed_timing_1(pixel_clock) ==
    << pixel_clock[1], pixel_clock[2],
       horizontal_active_low, horizontal_blanking_low, horizontal_high,
       vertical_active_low, vertical_blanking_low, vertical_high,
       h_sync_offset_low, h_sync_pulse_low, v_sync_combined, sync_high,
       horizontal_size_low, vertical_size_low, size_high,
       0, 0, 30 >>

\* the block without its checksum
assemble(pixel_clock) ==
    header \o manufacturer_id \o product_id \o serial_number \o
    week_year \o edid_version \o display_params \o color_chars \o
    established_timings \o standard_timings \o detailed_timing_1(pixel_clock) \o
    display_name \o range_limits \o dummy_descriptor \o extension_flag

\* ------------------------------------------------------------ validate_edid
NoError == [kind |-> "none"]
LengthError(n) == [kind |-> "length", actual |-> n, expected |-> 128]
HeaderError == [kind |-> "header"]
ChecksumError(c) == [kind |-> "checksum", computed |-> c]
RateError(r) == [kind |-> "rate", value |-> r, supported |-> <<60, 120, 144, 240>>]

expected_header == <<0, 255, 255, 255, 255, 255, 255, 0>>

\* edid_data[:8]
Prefix(s, n) == SubSeq(s, 1, IF Len(s) < n THEN Len(s) ELSE n)

validate_edid_HeaderFirst(edid) ==
    IF Prefix(edid, 8) # expected_header THEN HeaderError
    ELSE IF Len(edid) # 128 THEN LengthError(Len(edid))
    ELSE IF SumSeq(edid) % 256 # 0 THEN ChecksumError(SumSeq(edid) % 256)
    ELSE NoError

validate_edid_NoChecksum(edid) ==
    IF Len(edid) # 128 THEN LengthError(Len(edid))
    ELSE IF Prefix(edid, 8) # expected_header THEN HeaderError
    ELSE NoError

\* the ValueError validate_edid raises on edid, NoError when it returns True
validate_edid(edid) ==
    IF Len(edid) # 128 THEN LengthError(Len(edid))
    ELSE IF Prefix(edid, 8) # expected_header THEN HeaderError
    ELSE IF SumSeq(edid) % 256 # 0 THEN ChecksumError(SumSeq(edid) % 256)
    ELSE NoError

\* ------------------------------------------------------------------- state
VARIABLES
    pc,                 \* where the call of create_ultrawide_edid stands
    refresh_rate,       \* its argument
    pixel_clock_10khz,  \* its local of that name
    pixel_clock,        \* the two bytes split off pixel_clock_10khz
    edid_data,          \* the list being assembled
    result,             \* the bytes it returned, <<>> before and on an error
    error,              \* the ValueError it raised, NoError otherwise
    buf,                \* the caller's buffer, handed to validate_edid
    flipped,            \* <<i, k>> once the caller flipped bit k of buf[i]
    resized,            \* -1 / +1 once the caller dropped / added a last byte
    refixed,            \* TRUE once the caller recomputed the last byte
    verdict,            \* what validate_edid(buf) did, Pending before the call
    mpc,                \* where main() stands
    idx,                \* position of the for loop in refresh_rates (1-based)
    m_edid,             \* main's local edid_data
    accepted,           \* the bytes validate_edid accepted in this iteration
    stdout,             \* the lines main printed for the current run
    binfile,            \* rate -> contents of msi_mpg491cqpx_<rate>hz.bin
    hexfile,            \* rate -> lines of msi_mpg491cqpx_<rate>hz.hex
    alias               \* ultrawide_5120x1440.bin

codecVars == <<pc, refresh_rate, pixel_clock_10khz, pixel_clock, edid_data,
               result, error, buf, flipped, resized, refixed, verdict>>
mainVars == <<mpc, idx, m_edid, accepted, stdout, binfile, hexfile, alias>>
vars == <<pc, refresh_rate, pixel_clock_10khz, pixel_clock, edid_data,
          result, error, buf, flipped, resized, refixed, verdict,
          mpc, idx, m_edid, accepted, stdout, binfile, hexfile, alias>>

Pending == [kind |-> "pending"]
Absent == [exists |-> FALSE]
File(c) == [exists |-> TRUE, content |-> c]

\* refresh_rates in main
refresh_rates == <<60, 120, 144, 240>>

InitCodec ==
    /\ pc = "idle"
    /\ refresh_rate = 0
    /\ pixel_clock_10khz = 0
    /\ pixel_clock = <<>>
    /\ edid_data = <<>>
    /\ result = <<>>
    /\ error = NoError
    /\ buf = <<>>
    /\ flipped = <<>>
    /\ resized = 0
    /\ refixed = FALSE
    /\ verdict = Pending

InitMain ==
    /\ mpc = "idle"
    /\ idx = 1
    /\ m_edid = <<>>
    /\ accepted = <<>>
    /\ stdout = <<>>
    /\ binfile = [r \in Range(refresh_rates) |-> Absent]
    /\ hexfile = [r \in Range(refresh_rates) |-> Absent]
    /\ alias = Absent

Init == InitCodec /\ InitMain

\* ------------------------------------- create_ultrawide_edid, step by step
Call(r) ==
    /\ pc = "idle"
    /\ refresh_rate' = r
    /\ pc' = "check"
    /\ UNCHANGED <<pixel_clock_10khz, pixel_clock, edid_data, result, error,
                   buf, flipped, resized, refixed, verdict>>
    /\ UNCHANGED mainVars

\* if refresh_rate not in [60, 120, 144, 240]: raise ValueError(...)
CheckRate ==
    /\ pc = "check"
    /\ IF refresh_rate \notin Range(SupportedRates)
       THEN /\ error' = RateError(refresh_rate)
            /\ pc' = "raised"
       ELSE /\ error' = error
            /\ pc' = "timing"
    /\ UNCHANGED <<refresh_rate, pixel_clock_10khz, pixel_clock, edid_data,
                   result, buf, flipped, resized, refixed, verdict>>
    /\ UNCHANGED mainVars

ComputeTiming ==
    /\ pc = "timing"
    /\ pixel_clock_10khz' = pixel_clock_10khz_of(refresh_rate)
    /\ pixel_clock' = pixel_clock_of(pixel_clock_10khz_of(refresh_rate))
    /\ pc' = "assemble"
    /\ UNCHANGED <<refresh_rate, edid_data, result, error,
                   buf, flipped, resized, refixed, verdict>>
    /\ UNCHANGED mainVars

Assemble ==
    /\ pc = "assemble"
    /\ edid_data' = assemble(pixel_clock)
    /\ pc' = "checksum"
    /\ UNCHANGED <<refresh_rate, pixel_clock_10khz, pixel_clock, result, error,
                   buf, flipped, resized, refixed, verdict>>
    /\ UNCHANGED mainVars

\* checksum = calculate_checksum(edid_data); edid_data.append(checksum)
AppendChecksum ==
    /\ pc = "checksum"
    /\ edid_data' = Append(edid_data, calculate_checksum(edid_data))
    /\ pc' = "return"
    /\ UNCHANGED <<refresh_rate, pixel_clock_10khz, pixel_clock, result, error,
                   buf, flipped, resized, refixed, verdict>>
    /\ UNCHANGED mainVars

\* return bytes(edid_data); the caller holds the block in buf
Return ==
    /\ pc = "return"
    /\ result' = edid_data
    /\ buf' = edid_data
    /\ pc' = "returned"
    /\ UNCHANGED <<refresh_rate, pixel_clock_10khz, pixel_clock, edid_data,
                   error, flipped, resized, refixed, verdict>>
    /\ UNCHANGED mainVars

\* ------------------------------------ the caller's buffer before validation
FlipBit(i, k) ==
    /\ pc = "returned"
    /\ flipped = <<>>
    /\ i < Len(buf)
    /\ buf' = [buf EXCEPT ![i + 1] = BitXor(@, Pow2(k))]
    /\ flipped' = <<i, k>>
    /\ UNCHANGED <<pc, refresh_rate, pixel_clock_10khz, pixel_clock, edid_data,
                   result, error, resized, refixed, verdict>>
    /\ UNCHANGED mainVars

Truncate ==
    /\ pc = "returned"
    /\ resized = 0
    /\ buf' = SubSeq(buf, 1, Len(buf) - 1)
    /\ resized' = -1
    /\ UNCHANGED <<pc, refresh_rate, pixel_clock_10khz, pixel_clock, edid_data,
                   result, error, flipped, refixed, verdict>>
    /\ UNCHANGED mainVars

Extend(b) ==
    /\ pc = "returned"
    /\ resized = 0
    /\ buf' = Append(buf, b)
    /\ resized' = 1
    /\ UNCHANGED <<pc, refresh_rate, pixel_clock_10khz, pixel_clock, edid_data,
                   result, error, flipped, refixed, verdict>>
    /\ UNCHANGED mainVars

\* the caller replaces the last byte by calculate_checksum of the others
Rechecksum ==
    /\ pc = "returned"
    /\ ~refixed
    /\ buf' = Append(SubSeq(buf, 1, Len(buf) - 1),
                     calculate_checksum(SubSeq(buf, 1, Len(buf) - 1)))
    /\ refixed' = TRUE
    /\ UNCHANGED <<pc, refresh_rate, pixel_clock_10khz, pixel_clock, edid_data,
                   result, error, flipped, resized, verdict>>
    /\ UNCHANGED mainVars

Validate ==
    /\ pc = "returned"
    /\ verdict' = validate_edid(buf)
    /\ pc' = "validated"
    /\ UNCHANGED <<refresh_rate, pixel_clock_10khz, pixel_clock, edid_data,
                   result, error, buf, flipped, resized, refixed>>
    /\ UNCHANGED mainVars

Next ==
    \/ \E r \in 0..MaxRate : Call(r)
    \/ CheckRate
    \/ ComputeTiming
    \/ Assemble
    \/ AppendChecksum
    \/ Return
    \/ \E i \in 0..128, k \in 0..7 : FlipBit(i, k)
    \/ Truncate
    \/ \E b \in 0..MaxAppendByte : Extend(b)
    \/ Rechecksum
    \/ Validate

Spec == Init /\ [][Next]_vars

\* ------------------------------------------- create_ultrawide_edid, whole
create_ultrawide_edid(r) ==
    IF r \notin Range(SupportedRates)
    THEN [raised |-> TRUE, error |-> RateError(r)]
    ELSE LET data == assemble(pixel_clock_of(pixel_clock_10khz_of(r)))
         IN  [raised |-> FALSE, value |-> Append(data, calculate_checksum(data))]

\* ------------------------------------------------------------------- main
HexDigits == <<"0", "1", "2", "3", "4", "5", "6", "7",
               "8", "9", "a", "b", "c", "d", "e", "f">>

\* binascii.hexlify(data).decode('ascii'), as a sequence of characters
hexlify(data) ==
    [i \in 1..(2 * Len(data)) |->
        IF i % 2 = 1 THEN HexDigits[(data[(i + 1) \div 2] \div 16) + 1]
                     ELSE HexDigits[(data[i \div 2] % 16) + 1]]

\* the lines hex_dump[i:i+32] + '\n' for i in range(0, len(hex_dump), 32)
HexLines(h) ==
    [j \in 1..((Len(h) + 31) \div 32) |->
        Append(SubSeq(h, (32 * (j - 1)) + 1,
                      IF 32 * j < Len(h) THEN 32 * j ELSE Len(h)), "\n")]

\* bytes that reach the file when f.write(edid_data) fails part-way
PartialWrites == {0, 64}
\* lines that reach the hex file when one of its f.write calls fails
PartialLines == {0, 4}

IOError == [kind |-> "io"]

rate == refresh_rates[idx]

\* where the for loop goes after the body of iteration idx
AfterIteration == IF idx < Len(refresh_rates) THEN "generate" ELSE "alias"

Fail_NoContinue(e) ==
    /\ stdout' = Append(stdout, [msg |-> "failed", rate |-> rate, e |-> e])
    /\ idx' = idx
    /\ mpc' = "write_hex"

\* except (ValueError, IOError) as e: print(...); continue
Fail(e) ==
    /\ stdout' = Append(stdout, [msg |-> "failed", rate |-> rate, e |-> e])
    /\ idx' = IF idx < Len(refresh_rates) THEN idx + 1 ELSE idx
    /\ mpc' = AfterIteration

MainStart ==
    /\ mpc = "idle"
    /\ stdout' = Append(stdout, [msg |-> "creating"])
    /\ mpc' = "generate"
    /\ UNCHANGED <<idx, m_edid, accepted, binfile, hexfile, alias>>
    /\ UNCHANGED codecVars

\* print("Generating ..."); edid_data = create_ultrawide_edid(refresh_rate)
MainGenerate ==
    /\ mpc = "generate"
    /\ accepted' = <<>>
    /\ LET c == create_ultrawide_edid(rate)
           out == Append(stdout, [msg |-> "generating", rate |-> rate])
       IN  IF c.raised
           THEN /\ stdout' = Append(out, [msg |-> "failed", rate |-> rate, e |-> c.error])
                /\ idx' = IF idx < Len(refresh_rates) THEN idx + 1 ELSE idx
                /\ mpc' = AfterIteration
                /\ m_edid' = m_edid
           ELSE /\ stdout' = out
                /\ idx' = idx
                /\ mpc' = "validate"
                /\ m_edid' = c.value
    /\ UNCHANGED <<binfile, hexfile, alias>>
    /\ UNCHANGED codecVars

\* validate_edid(edid_data); print("EDID validation passed")
MainValidate ==
    /\ mpc = "validate"
    /\ IF validate_edid(m_edid) = NoError
       THEN /\ accepted' = m_edid
            /\ stdout' = Append(stdout, [msg |-> "validation passed"])
            /\ idx' = idx
            /\ mpc' = "write_bin"
       ELSE /\ accepted' = accepted
            /\ Fail(validate_edid(m_edid))
    /\ UNCHANGED <<m_edid, binfile, hexfile, alias>>
    /\ UNCHANGED codecVars

\* with open(filename, 'wb') as f: f.write(edid_data); print("Created ...")
MainWriteBin ==
    /\ mpc = "write_bin"
    /\ binfile' = [binfile EXCEPT ![rate] = File(m_edid)]
    /\ stdout' = Append(stdout, [msg |-> "created", file |-> <<"bin", rate>>,
                                 bytes |-> Len(m_edid)])
    /\ mpc' = "write_hex"
    /\ UNCHANGED <<idx, m_edid, accepted, hexfile, alias>>
    /\ UNCHANGED codecVars

\* open(filename, 'wb') raises IOError: the file is left as it was
MainOpenBinFails ==
    /\ mpc = "write_bin"
    /\ Fail(IOError)
    /\ UNCHANGED <<m_edid, accepted, binfile, hexfile, alias>>
    /\ UNCHANGED codecVars

\* f.write(edid_data) raises IOError after n bytes reached the file
MainWriteBinFails(n) ==
    /\ mpc = "write_bin"
    /\ binfile' = [binfile EXCEPT ![rate] = File(SubSeq(m_edid, 1, n))]
    /\ Fail(IOError)
    /\ UNCHANGED <<m_edid, accepted, hexfile, alias>>
    /\ UNCHANGED codecVars

\* the hex dump, outside the try: written line by line, then the next rate
MainWriteHex ==
    /\ mpc = "write_hex"
    /\ hexfile' = [hexfile EXCEPT ![rate] = File(HexLines(hexlify(m_edid)))]
    /\ stdout' = Append(stdout, [msg |-> "created", file |-> <<"hex", rate>>])
    /\ idx' = IF idx < Len(refresh_rates) THEN idx + 1 ELSE idx
    /\ mpc' = AfterIteration
    /\ UNCHANGED <<m_edid, accepted, binfile, alias>>
    /\ UNCHANGED codecVars

\* open(hex_filename, 'w') raises: nothing catches it, main ends
MainOpenHexFails ==
    /\ mpc = "write_hex"
    /\ mpc' = "crashed"
    /\ UNCHANGED <<idx, m_edid, accepted, stdout, binfile, hexfile, alias>>
    /\ UNCHANGED codecVars

\* a f.write of the hex dump raises after n lines: nothing catches it
MainWriteHexFails(n) ==
    /\ mpc = "write_hex"
    /\ hexfile' = [hexfile EXCEPT
                      ![rate] = File(SubSeq(HexLines(hexlify(m_edid)), 1, n))]
    /\ mpc' = "crashed"
    /\ UNCHANGED <<idx, m_edid, accepted, stdout, binfile, alias>>
    /\ UNCHANGED codecVars

\* os.symlink('msi_mpg491cqpx_60hz.bin', 'ultrawide_5120x1440.bin') and the
\* closing prints
MainAliasSymlink ==
    /\ mpc = "alias"
    /\ alias' = [exists |-> TRUE, link |-> <<"bin", 60>>]
    /\ stdout' = Append(Append(stdout, [msg |-> "symlink"]), [msg |-> "info"])
    /\ mpc' = "done"
    /\ UNCHANGED <<idx, m_edid, accepted, binfile, hexfile>>
    /\ UNCHANGED codecVars

\* OSError from the symlink: shutil.copy2 of the 60 Hz file, which raises in
\* its turn when that file is missing
MainAliasCopy ==
    /\ mpc = "alias"
    /\ IF binfile[60].exists
       THEN /\ alias' = File(binfile[60].content)
            /\ stdout' = Append(Append(stdout, [msg |-> "copy"]), [msg |-> "info"])
            /\ mpc' = "done"
       ELSE /\ alias' = alias
            /\ stdout' = stdout
            /\ mpc' = "crashed"
    /\ UNCHANGED <<idx, m_edid, accepted, binfile, hexfile>>
    /\ UNCHANGED codecVars

NextMain ==
    \/ MainStart
    \/ MainGenerate
    \/ MainValidate
    \/ MainWriteBin
    \/ MainOpenBinFails
    \/ \E n \in PartialWrites : MainWriteBinFails(n)
    \/ MainWriteHex
    \/ MainOpenHexFails
    \/ \E n \in PartialLines : MainWriteHexFails(n)
    \/ MainAliasSymlink
    \/ MainAliasCopy

SpecMain == Init /\ [][NextMain]_vars

\* ------------------------------------------------ properties of the codec
\* the block came back from create_ultrawide_edid
Returned == pc \in {"returned", "validated"}

\* validate_edid ran on the block exactly as it was returned
ValidatedAsReturned == pc = "validated" /\ buf = result

\* C1: for every supported refresh rate (60, 120, 144, 240) the call returns
\* a block, the block is 128 bytes long, starts with 00 FF FF FF FF FF FF 00,
\* sums to 0 modulo 256, and validate_edid accepts it.
C1_ReturnedBlockValidates ==
    refresh_rate \in {60, 120, 144, 240} =>
        /\ pc # "raised"
        /\ Returned =>
              /\ Len(result) = 128
              /\ SubSeq(result, 1, 8) = <<0, 255, 255, 255, 255, 255, 255, 0>>
              /\ SumSeq(result) % 256 = 0
        /\ ValidatedAsReturned => verdict = NoError

C1_Witness ==
    /\ ValidatedAsReturned
    /\ refresh_rate = 240
    /\ verdict = NoError

\* C2 (as stated): at 60 Hz bytes 54 and 55 of the block are 0x85, 0xB7 and
\* validate_edid accepts the block.
C2_ClockBytes85B7 ==
    (Returned /\ refresh_rate = 60) =>
        /\ result[55] = 133
        /\ result[56] = 183
        /\ ValidatedAsReturned => verdict = NoError

\* C2 (amended): at 60 Hz bytes 54 and 55 of the block are 0xC4, 0xB7, the
\* little-endian bytes of 47044, and validate_edid accepts the block.
C2_ClockBytesC4B7 ==
    (Returned /\ refresh_rate = 60) =>
        /\ result[55] = 196
        /\ result[56] = 183
        /\ ValidatedAsReturned => verdict = NoError

C2_Witness ==
    /\ ValidatedAsReturned
    /\ refresh_rate = 60
    /\ result[55] = 196
    /\ verdict = NoError

\* C3 (as stated): the pixel-clock value is 5280 * 1485 * refresh_rate / 10000
\* rounded to the nearest integer: it is within half a step of the true clock.
C3_ClockRoundedToNearest ==
    Returned =>
        /\ 2 * ((5280 * 1485 * refresh_rate) - (pixel_clock_10khz * 10000)) <= 10000
        /\ 2 * ((pixel_clock_10khz * 10000) - (5280 * 1485 * refresh_rate)) < 10000

\* C3 (amended): the pixel-clock value is 5280 * 1485 * refresh_rate / 10000
\* with the fraction dropped: it never exceeds the true clock and is less
\* than one 10 kHz step below it.
C3_ClockTruncated ==
    Returned =>
        /\ pixel_clock_10khz * 10000 <= 5280 * 1485 * refresh_rate
        /\ 5280 * 1485 * refresh_rate < (pixel_clock_10khz + 1) * 10000

C3_Witness ==
    /\ pc = "returned"
    /\ refresh_rate = 144
    /\ pixel_clock_10khz = 112907

\* C4: a refresh rate outside {60, 120, 144, 240} ends in the error that
\* names the rate and the supported set, with no byte of the block built
\* and nothing returned.
C4_UnsupportedRateRejectedFirst ==
    (pc \notin {"idle", "check"} /\ refresh_rate \notin {60, 120, 144, 240}) =>
        /\ pc = "raised"
        /\ error = [kind |-> "rate", value |-> refresh_rate,
                    supported |-> <<60, 120, 144, 240>>]
        /\ pixel_clock = <<>>
        /\ edid_data = <<>>
        /\ result = <<>>
        /\ buf = <<>>

C4_Witness ==
    /\ pc = "raised"
    /\ refresh_rate = 90
    /\ error.value = 90

\* C5: no block is returned when the horizontal or vertical active pixel
\* count that is encoded exceeds 4095; the call fails with FieldOverflow.
C5_NoBlockFromOverflowingActive ==
    (horizontal_active > 4095 \/ vertical_active > 4095) =>
        /\ ~Returned
        /\ result = <<>>
        /\ pc \in {"assemble", "checksum", "return"} => error.kind = "overflow"

\* C6: validate_edid reports the first failing check in the order length,
\* header, checksum: a buffer not 128 bytes long gets the length error
\* whatever its header and sum, a 128-byte buffer with a wrong header gets
\* the header error whatever its sum, and the checksum error is given only
\* to a 128-byte buffer with the right header.
HeaderIntact == \A i \in 1..8 : i <= Len(buf) /\ buf[i] = (IF i \in {1, 8} THEN 0 ELSE 255)

C6_ValidateOrder ==
    pc = "validated" =>
        /\ Len(buf) # 128 => verdict = [kind |-> "length", actual |-> Len(buf), expected |-> 128]
        /\ (Len(buf) = 128 /\ ~HeaderIntact) => verdict = [kind |-> "header"]
        /\ verdict.kind = "checksum" => (Len(buf) = 128 /\ HeaderIntact)

C6_Witness ==
    /\ pc = "validated"
    /\ Len(buf) = 129
    /\ ~HeaderIntact
    /\ SumSeq(buf) % 256 = 0
    /\ verdict.kind = "length"

\* C7: a returned block with any single bit of any byte 0..126 flipped and
\* byte 127 left as it was is rejected by validate_edid.
C7_SingleBitFlipRejected ==
    (pc = "validated" /\ flipped # <<>> /\ resized = 0 /\ ~refixed) =>
        (flipped[1] <= 126 => verdict # NoError)

C7_Witness ==
    /\ pc = "validated"
    /\ flipped = <<126, 7>>
    /\ resized = 0
    /\ ~refixed
    /\ buf[128] = result[128]
    /\ verdict.kind = "checksum"

\* C8: unpacking the three bytes of each active/blanking pair of the
\* detailed timing descriptor (active = low byte + 256 * low nibble,
\* blanking = low byte + 256 * high nibble) gives back the active and
\* blanking values the totals were computed from: 5120 and 160, 1440 and 45.
UnpackActive(low, high) == low + 256 * (high % 16)
UnpackBlanking(low, high) == low + 256 * (high \div 16)

C8_ActiveBlankingRoundTrip ==
    Returned =>
        /\ UnpackActive(result[57], result[59]) = 5120
        /\ UnpackBlanking(result[58], result[59]) = 160
        /\ UnpackActive(result[60], result[62]) = 1440
        /\ UnpackBlanking(result[61], result[62]) = 45

\* C9: for every supported refresh rate the pixel clock in 10 kHz units is
\* at most 65535, and bytes 54 and 55 read as a 16-bit little-endian integer
\* give it back.
C9_ClockFitsSixteenBits ==
    Returned =>
        /\ pixel_clock_10khz <= 65535
        /\ result[55] + 256 * result[56] = pixel_clock_10khz

\* ---------------------------------------------------- properties of main
FailedRates == {stdout[i].rate : i \in {j \in 1..Len(stdout) : stdout[j].msg = "failed"}}

\* C10: in main the binary file of a rate is written only after
\* validate_edid accepted the very bytes written, the hex dump of a rate only
\* after its binary file was written in full, and a failure while
\* generating, validating or writing a rate leaves that rate without hex dump
\* and moves the loop on to the next rate.
C10_Step ==
    /\ \A r \in Range(refresh_rates) :
          binfile'[r] # binfile[r] =>
              /\ r = rate
              /\ accepted = m_edid
              /\ validate_edid(accepted) = NoError
              /\ \E n \in 0..Len(accepted) : binfile'[r] = File(SubSeq(accepted, 1, n))
              /\ r \notin FailedRates' => binfile'[r] = File(accepted)
    /\ \A r \in Range(refresh_rates) :
          hexfile'[r] # hexfile[r] =>
              /\ r = rate
              /\ binfile[r] = File(m_edid)
              /\ r \notin FailedRates
    /\ FailedRates' # FailedRates =>
          /\ FailedRates' = FailedRates \cup {rate}
          /\ hexfile' = hexfile
          /\ mpc' = (IF idx < 4 THEN "generate" ELSE "alias")
          /\ idx < 4 => idx' = idx + 1

C10_MainOrder ==
    /\ [](\A r \in FailedRates : ~hexfile[r].exists)
    /\ [][C10_Step]_vars

C10_Witness ==
    /\ mpc = "done"
    /\ FailedRates = {120}
    /\ binfile[120].exists
    /\ ~hexfile[120].exists
    /\ hexfile[144].exists
    /\ hexfile[240].exists

====
